---- MODULE Spec2Model ----
(***************************************************************************)
(* A model of daemon_util.py: the PID-file protocol of class PIDFile and   *)
(* isProcessRunning.                                                       *)
(*                                                                         *)
(* The file system is one path (PIDFile.path) that is either unlinked or   *)
(* linked to an inode; inodes are numbered 1, 2, ... in creation order and *)
(* files[i] is the byte content of inode i (bytes are their integer        *)
(* values, as in Python's bytes).  An open file refers to an inode, not to *)
(* the path, so a write through a handle reaches the inode even after the  *)
(* path was unlinked or re-created.                                        *)
(*                                                                         *)
(* Every process owns one PIDFile instance (handle = self._file).          *)
(* create() is modelled system call by system call, so that concurrent     *)
(* create() calls interleave as processes do; every other method is one    *)
(* action.                                                                 *)
(***************************************************************************)
EXTENDS Integers, Sequences, FiniteSets

\* ------------------------------------------------------------------ bounds

\* Number of processes sharing the path; process p has PID p.
NumProcs == 2
\* Operations one process may start.
MaxOps == 4
\* Longest initial file content of the parsing specification.
MaxLen == 4
\* A PID that belongs to no running process.
DeadPID == 120
\* The exclusive-create attempts of one create() are counted up to this number.
MaxAttempts == 3
\* The largest value of pid_t, the argument type of os.getpgid.
PidMax == 2147483647
\* The longest digit string int() converts (sys.int_info.default_max_str_digits).
IntMaxStrDigits == 4300

Procs == 1..NumProcs

\* ------------------------------------------------------------------ bytes

LF == 10
\* b'0123456789'
Digits == 48..57
\* What bytes.strip() without argument removes: b' \t\n\r\x0b\x0c'.
Whitespace == {9, 10, 11, 12, 13, 32}

Range(s) == {s[i] : i \in 1..Len(s)}

\* pidstr.endswith(b'\n')
endswith(s, b) == Len(s) > 0 /\ s[Len(s)] = b

RECURSIVE lstrip(_)
lstrip(s) == IF s # <<>> /\ Head(s) \in Whitespace THEN lstrip(Tail(s)) ELSE s

RECURSIVE rstrip(_)
rstrip(s) ==
    IF s # <<>> /\ s[Len(s)] \in Whitespace THEN rstrip(SubSeq(s, 1, Len(s) - 1)) ELSE s

\* bytes.strip() that forgot the leading side.
strip_TrailingOnly(s) == rstrip(s)

\* bytes.strip()
strip(s) == rstrip(lstrip(s))

\* The number a string of ASCII digits denotes.
RECURSIVE decimal(_)
decimal(s) ==
    IF s = <<>> THEN 0
    ELSE 10 * decimal(SubSeq(s, 1, Len(s) - 1)) + (s[Len(s)] - 48)

\* int(pid) for a byte string of ASCII digits: the number, or ValueError when
\* the string is longer than int() converts.
int(s) ==
    IF Len(s) > IntMaxStrDigits THEN [kind |-> "ValueError", value |-> 0]
    ELSE [kind |-> "return", value |-> decimal(s)]

\* str(pid) for pid >= 0, as bytes.
RECURSIVE str(_)
str(n) == IF n < 10 THEN <<48 + n>> ELSE str(n \div 10) \o <<48 + (n % 10)>>

\* print(pid, file=f, end=''): the line terminator is missing.
printed_NoNewline(n) == str(n)

\* What print(pid, file=f) sends to the file.
printed(n) == str(n) \o <<LF>>

\* ------------------------------------------------------------------ state

VARIABLES
    link,      \* inode the path is linked to, NoInode when the path does not exist
    files,     \* files[i]: content of inode i
    alive,     \* alive[p]: the system has a process p (running, or dead and not reaped)
    denied,    \* PIDs whose look-up the system refuses to the caller (EPERM)
    handle,    \* handle[p]: self._file of p's PIDFile (an inode), NoInode for None
    opened,    \* opened[p]: inodes p has created with open(path, 'x') and not closed
    inScope,   \* inScope[p]: p is inside "with pidfile:"
    pc,        \* pc[p]: "idle", a position inside create() or getPID(), "off" or "dead"
    existed,   \* create()'s local variable existed
    attempts,  \* exclusive-create attempts of the current or last create() (capped)
    rd,        \* inode getPID() has open for reading
    pid,       \* create()'s local variable pid
    nops,      \* operations p has started
    pre,       \* the path and the handle as they were when p's last operation began
    last       \* outcome of p's last finished operation

vars == <<link, files, alive, denied, handle, opened, inScope, pc, existed, attempts, rd, pid,
          nops, pre, last>>

NoInode == 0
None == <<>>

\* The content of the file at the path (empty when there is none).
PathBytes == IF link = NoInode THEN <<>> ELSE files[link]

Snapshot(p) == [link |-> link, bytes |-> PathBytes, handle |-> handle[p]]

\* An outcome: kind is "return" or the name of the exception raised.
Outcome(op, kind, n, b, s) == [op |-> op, kind |-> kind, pid |-> n, flag |-> b, bytes |-> s]

Returned(op) == Outcome(op, "return", 0, FALSE, <<>>)
ReturnedPID(op, n) == Outcome(op, "return", n, FALSE, <<>>)
ReturnedBool(op, b) == Outcome(op, "return", 0, b, <<>>)
PIDFileNotFound(op) == Outcome(op, "PIDFileNotFound", 0, FALSE, <<>>)
InvalidPIDFileContent(op, content) == Outcome(op, "InvalidPIDFileContent", 0, FALSE, content)
AlreadyRunning(op, n) == Outcome(op, "AlreadyRunning", n, FALSE, <<>>)
PIDFileNotCreated(op) == Outcome(op, "PIDFileNotCreated", 0, FALSE, <<>>)

\* ------------------------------------------------------------------ isProcessRunning

\* os.getpgid(pid): OverflowError when pid does not fit pid_t; 0 stands for the
\* caller, whose group is found; otherwise the process group is found, or
\* ProcessLookupError (ESRCH) when the system has no such process, or
\* PermissionError (EPERM) when it has one and refuses the caller.  A process
\* that died is found until it is reaped.  (Every integer TLC represents
\* fits pid_t, so the first outcome lies beyond the bounded specifications.)
getpgid(n) ==
    IF n > PidMax \/ n < -PidMax - 1 THEN "OverflowError"
    ELSE IF n = 0 THEN "found"
    ELSE IF n \in Procs /\ alive[n]
    THEN IF n \in denied THEN "PermissionError" ELSE "found"
    ELSE "ProcessLookupError"

\* isProcessRunning(pid): only ProcessLookupError is caught, any other exception
\* of os.getpgid leaves the function.  The outcome names the PID asked about.
isProcessRunning(n) ==
    IF getpgid(n) = "ProcessLookupError" THEN Outcome("isProcessRunning", "return", n, FALSE, <<>>)
    ELSE IF getpgid(n) = "found" THEN Outcome("isProcessRunning", "return", n, TRUE, <<>>)
    ELSE Outcome("isProcessRunning", getpgid(n), n, FALSE, <<>>)

\* ------------------------------------------------------------------ getPID

\* getPID() from the read on: pidstr is what f.read() returned.  The ValueError of
\* int() is not caught.
parsePID(op, pidstr) ==
    IF ~endswith(pidstr, LF) THEN InvalidPIDFileContent(op, pidstr)
    ELSE LET stripped == strip(pidstr) IN
         IF stripped = <<>> \/ Range(stripped) \ Digits # {}
         THEN InvalidPIDFileContent(op, pidstr)
         ELSE IF int(stripped).kind # "return"
         THEN Outcome(op, int(stripped).kind, 0, FALSE, <<>>)
         ELSE IF int(stripped).value = 0 THEN InvalidPIDFileContent(op, pidstr)
         ELSE ReturnedPID(op, int(stripped).value)

\* getPID() on a path linked to inode i (NoInode: no such file).
getPID(op, i) == IF i = NoInode THEN PIDFileNotFound(op) ELSE parsePID(op, files[i])

\* ------------------------------------------------------------------ operations

\* os.getpid() of process p.
getpid(p) == p

Startable(p) == pc[p] = "idle" /\ nops[p] < MaxOps

\* An operation of p that is one step: it begins and finishes with outcome r.
Atomic(p, r) ==
    /\ Startable(p)
    /\ nops' = [nops EXCEPT ![p] = @ + 1]
    /\ pre' = [pre EXCEPT ![p] = Snapshot(p)]
    /\ last' = [last EXCEPT ![p] = r]
    /\ UNCHANGED <<alive, denied, pc, existed, attempts, rd, pid>>

\* PIDFile.getPID() is entered by p: open(self.path, 'rb'), PIDFileNotFound when
\* there is no file.
GetPIDOpen(p) ==
    /\ Startable(p)
    /\ nops' = [nops EXCEPT ![p] = @ + 1]
    /\ pre' = [pre EXCEPT ![p] = Snapshot(p)]
    /\ IF link = NoInode
       THEN /\ last' = [last EXCEPT ![p] = PIDFileNotFound("getPID")]
            /\ UNCHANGED <<pc, rd>>
       ELSE /\ pc' = [pc EXCEPT ![p] = "getPID.read"]
            /\ rd' = [rd EXCEPT ![p] = link]
            /\ UNCHANGED last
    /\ UNCHANGED <<link, files, alive, denied, handle, opened, inScope, existed, attempts, pid>>

\* PIDFile.getPID() goes on: f.read() of the file it opened, the file is closed
\* and the content checked.
GetPIDRead(p) ==
    /\ pc[p] = "getPID.read"
    /\ last' = [last EXCEPT ![p] = parsePID("getPID", files[rd[p]])]
    /\ pc' = [pc EXCEPT ![p] = "idle"]
    /\ rd' = [rd EXCEPT ![p] = NoInode]
    /\ UNCHANGED <<link, files, alive, denied, handle, opened, inScope, existed, attempts, pid,
                   nops, pre>>

\* PIDFile.getPID(), called by p: two system calls, two steps.
GetPID(p) == GetPIDOpen(p) \/ GetPIDRead(p)

\* writePID() without the check of self._file: nothing is written and nothing raised.
WritePID_Unchecked(p, arg) ==
    LET n == IF arg = None THEN getpid(p) ELSE arg[1] IN
    /\ Atomic(p, ReturnedPID("writePID", n))
    /\ files' = IF handle[p] = NoInode THEN files
                ELSE [files EXCEPT ![handle[p]] = @ \o printed(n)]
    /\ UNCHANGED <<link, handle, opened, inScope>>

\* PIDFile.writePID(pid): arg is None or <<pid>>.  The outcome names the PID written.
WritePID(p, arg) ==
    LET n == IF arg = None THEN getpid(p) ELSE arg[1] IN
    IF handle[p] = NoInode
    THEN /\ Atomic(p, PIDFileNotCreated("writePID"))
         /\ UNCHANGED <<link, files, handle, opened, inScope>>
    ELSE /\ Atomic(p, ReturnedPID("writePID", n))
         /\ files' = [files EXCEPT ![handle[p]] = @ \o printed(n)]
         /\ UNCHANGED <<link, handle, opened, inScope>>

\* PIDFile.fileno(): the descriptor is named by the inode it refers to.
FileNo(p) ==
    /\ Atomic(p, IF handle[p] = NoInode THEN PIDFileNotCreated("fileno")
                 ELSE ReturnedPID("fileno", handle[p]))
    /\ UNCHANGED <<link, files, handle, opened, inScope>>

\* close() that also deletes the file.
Close_AlsoRemoves(p) ==
    /\ Atomic(p, Returned("close"))
    /\ handle' = [handle EXCEPT ![p] = NoInode]
    /\ opened' = [opened EXCEPT ![p] = @ \ {handle[p]}]
    /\ link' = NoInode
    /\ UNCHANGED <<files, inScope>>

\* PIDFile.close()
Close(p) ==
    /\ Atomic(p, Returned("close"))
    /\ handle' = [handle EXCEPT ![p] = NoInode]
    /\ opened' = [opened EXCEPT ![p] = @ \ {handle[p]}]
    /\ UNCHANGED <<link, files, inScope>>

\* remove() that deletes the file only when this instance holds it open.
Remove_OnlyWhenClaimed(p) ==
    /\ Atomic(p, ReturnedBool("remove", link # NoInode /\ handle[p] # NoInode))
    /\ link' = IF handle[p] # NoInode THEN NoInode ELSE link
    /\ UNCHANGED <<files, handle, opened, inScope>>

\* PIDFile.remove()
Remove(p) ==
    /\ Atomic(p, ReturnedBool("remove", link # NoInode))
    /\ link' = NoInode
    /\ UNCHANGED <<files, handle, opened, inScope>>

\* PIDFile.__enter__()
Enter(p) ==
    /\ ~inScope[p]
    /\ Atomic(p, Returned("enter"))
    /\ inScope' = [inScope EXCEPT ![p] = TRUE]
    /\ UNCHANGED <<link, files, handle, opened>>

\* __exit__() that closes the file and leaves it on the file system.
Exit_CloseOnly(p) ==
    /\ inScope[p]
    /\ Atomic(p, Returned("exit"))
    /\ inScope' = [inScope EXCEPT ![p] = FALSE]
    /\ handle' = [handle EXCEPT ![p] = NoInode]
    /\ opened' = [opened EXCEPT ![p] = @ \ {handle[p]}]
    /\ UNCHANGED <<link, files>>

\* PIDFile.__exit__(): self.close().remove()
Exit(p) ==
    /\ inScope[p]
    /\ Atomic(p, Returned("exit"))
    /\ inScope' = [inScope EXCEPT ![p] = FALSE]
    /\ handle' = [handle EXCEPT ![p] = NoInode]
    /\ opened' = [opened EXCEPT ![p] = @ \ {handle[p]}]
    /\ link' = NoInode
    /\ UNCHANGED files

\* isProcessRunning(n), called by p.
IsProcessRunning(p, n) ==
    /\ Atomic(p, isProcessRunning(n))
    /\ UNCHANGED <<link, files, handle, opened, inScope>>

\* ------------------------------------------------------------------ create()

\* create() is entered: existed = False.
CallCreate(p) ==
    /\ Startable(p)
    /\ nops' = [nops EXCEPT ![p] = @ + 1]
    /\ pre' = [pre EXCEPT ![p] = Snapshot(p)]
    /\ pc' = [pc EXCEPT ![p] = "open"]
    /\ existed' = [existed EXCEPT ![p] = FALSE]
    /\ attempts' = [attempts EXCEPT ![p] = 0]
    /\ UNCHANGED <<link, files, alive, denied, handle, opened, inScope, rd, pid, last>>

\* create() leaves with outcome r; its locals are gone.
Leave(p, r) ==
    /\ pc' = [pc EXCEPT ![p] = "idle"]
    /\ last' = [last EXCEPT ![p] = r]
    /\ existed' = [existed EXCEPT ![p] = FALSE]
    /\ pid' = [pid EXCEPT ![p] = 0]

\* create() returning without storing the new file in self._file.
CreateOpen_DropsHandle(p) ==
    /\ pc[p] = "open"
    /\ attempts' = [attempts EXCEPT ![p] = IF @ < MaxAttempts THEN @ + 1 ELSE @]
    /\ IF link = NoInode
       THEN LET f == Len(files) + 1 IN
            /\ files' = Append(files, <<>>)
            /\ link' = f
            /\ handle' = [handle EXCEPT ![p] = NoInode]
            /\ opened' = [opened EXCEPT ![p] = (@ \ {handle[p]}) \cup {f}]
            /\ Leave(p, ReturnedBool("create", existed[p]))
       ELSE /\ pc' = [pc EXCEPT ![p] = "getPID"]
            /\ UNCHANGED <<link, files, handle, opened, last, existed, pid>>
    /\ UNCHANGED <<alive, denied, inScope, rd, nops, pre>>

\* create() storing the new file without closing the one it held: self._file = f.
CreateOpen_LeaksOld(p) ==
    /\ pc[p] = "open"
    /\ attempts' = [attempts EXCEPT ![p] = IF @ < MaxAttempts THEN @ + 1 ELSE @]
    /\ IF link = NoInode
       THEN LET f == Len(files) + 1 IN
            /\ files' = Append(files, <<>>)
            /\ link' = f
            /\ handle' = [handle EXCEPT ![p] = f]
            /\ opened' = [opened EXCEPT ![p] = @ \cup {f}]
            /\ Leave(p, ReturnedBool("create", existed[p]))
       ELSE /\ pc' = [pc EXCEPT ![p] = "getPID"]
            /\ UNCHANGED <<link, files, handle, opened, last, existed, pid>>
    /\ UNCHANGED <<alive, denied, inScope, rd, nops, pre>>

\* open(self.path, 'x', 1): creates a new empty file unless the path exists; then
\* self.close()._file = f and return existed.
CreateOpen(p) ==
    /\ pc[p] = "open"
    /\ attempts' = [attempts EXCEPT ![p] = IF @ < MaxAttempts THEN @ + 1 ELSE @]
    /\ IF link = NoInode
       THEN LET f == Len(files) + 1 IN
            /\ files' = Append(files, <<>>)
            /\ link' = f
            /\ handle' = [handle EXCEPT ![p] = f]
            /\ opened' = [opened EXCEPT ![p] = (@ \ {handle[p]}) \cup {f}]
            /\ Leave(p, ReturnedBool("create", existed[p]))
       ELSE /\ pc' = [pc EXCEPT ![p] = "getPID"]
            /\ UNCHANGED <<link, files, handle, opened, last, existed, pid>>
    /\ UNCHANGED <<alive, denied, inScope, rd, nops, pre>>

\* create() without the except PIDFileNotFound clause.
CreateGetPIDOpen_RaisesNotFound(p) ==
    /\ pc[p] = "getPID"
    /\ IF link = NoInode
       THEN /\ Leave(p, PIDFileNotFound("create"))
            /\ UNCHANGED rd
       ELSE /\ pc' = [pc EXCEPT ![p] = "read"]
            /\ rd' = [rd EXCEPT ![p] = link]
            /\ UNCHANGED <<existed, pid, last>>
    /\ UNCHANGED <<link, files, alive, denied, handle, opened, inScope, attempts, nops, pre>>

\* self.getPID() inside create(): open(self.path, 'rb'); PIDFileNotFound is passed
\* over and the loop starts again.
CreateGetPIDOpen(p) ==
    /\ pc[p] = "getPID"
    /\ IF link = NoInode
       THEN /\ pc' = [pc EXCEPT ![p] = "open"]
            /\ UNCHANGED rd
       ELSE /\ pc' = [pc EXCEPT ![p] = "read"]
            /\ rd' = [rd EXCEPT ![p] = link]
    /\ UNCHANGED <<link, files, alive, denied, handle, opened, inScope, existed, attempts, pid,
                   nops, pre, last>>

\* create() catching InvalidPIDFileContent and treating the file as abandoned.
CreateRead_SwallowsInvalid(p) ==
    /\ pc[p] = "read"
    /\ LET r == parsePID("create", files[rd[p]]) IN
       IF r.kind = "return"
       THEN /\ pc' = [pc EXCEPT ![p] = "alive"]
            /\ pid' = [pid EXCEPT ![p] = r.pid]
            /\ UNCHANGED <<last, existed>>
       ELSE /\ pc' = [pc EXCEPT ![p] = "remove"]
            /\ existed' = [existed EXCEPT ![p] = TRUE]
            /\ UNCHANGED <<last, pid>>
    /\ rd' = [rd EXCEPT ![p] = NoInode]
    /\ UNCHANGED <<link, files, alive, denied, handle, opened, inScope, attempts, nops, pre>>

\* self.getPID() inside create(): f.read() and the checks; InvalidPIDFileContent
\* is not caught by create().
CreateRead(p) ==
    /\ pc[p] = "read"
    /\ LET r == parsePID("create", files[rd[p]]) IN
       IF r.kind = "return"
       THEN /\ pc' = [pc EXCEPT ![p] = "alive"]
            /\ pid' = [pid EXCEPT ![p] = r.pid]
            /\ UNCHANGED <<last, existed>>
       ELSE Leave(p, r)
    /\ rd' = [rd EXCEPT ![p] = NoInode]
    /\ UNCHANGED <<link, files, alive, denied, handle, opened, inScope, attempts, nops, pre>>

\* create() closing its file before it raises AlreadyRunning.
CreateIsRunning_ClosesFirst(p) ==
    /\ pc[p] = "alive"
    /\ LET r == isProcessRunning(pid[p]) IN
       IF r.kind # "return"
       THEN Leave(p, [r EXCEPT !.op = "create"]) /\ UNCHANGED <<handle, opened>>
       ELSE IF r.flag
       THEN /\ Leave(p, AlreadyRunning("create", pid[p]))
            /\ handle' = [handle EXCEPT ![p] = NoInode]
            /\ opened' = [opened EXCEPT ![p] = @ \ {handle[p]}]
       ELSE /\ pc' = [pc EXCEPT ![p] = "remove"]
            /\ existed' = [existed EXCEPT ![p] = TRUE]
            /\ UNCHANGED <<last, pid, handle, opened>>
    /\ UNCHANGED <<link, files, alive, denied, inScope, attempts, rd, nops, pre>>

\* if isProcessRunning(pid): raise AlreadyRunning(pid); else existed = True.  An
\* exception of isProcessRunning leaves create().
CreateIsRunning(p) ==
    /\ pc[p] = "alive"
    /\ LET r == isProcessRunning(pid[p]) IN
       IF r.kind # "return" THEN Leave(p, [r EXCEPT !.op = "create"])
       ELSE IF r.flag THEN Leave(p, AlreadyRunning("create", pid[p]))
       ELSE /\ pc' = [pc EXCEPT ![p] = "remove"]
            /\ existed' = [existed EXCEPT ![p] = TRUE]
            /\ UNCHANGED <<last, pid>>
    /\ UNCHANGED <<link, files, alive, denied, handle, opened, inScope, attempts, rd, nops, pre>>

\* create() whose remove() leaves the file where it is.
CreateRemove_KeepsFile(p) ==
    /\ pc[p] = "remove"
    /\ pc' = [pc EXCEPT ![p] = "open"]
    /\ UNCHANGED <<link, files, alive, denied, handle, opened, inScope, existed, attempts,
                   rd, pid, nops, pre, last>>

\* self.remove() inside create(), then the loop starts again.
CreateRemove(p) ==
    /\ pc[p] = "remove"
    /\ link' = NoInode
    /\ pc' = [pc EXCEPT ![p] = "open"]
    /\ UNCHANGED <<files, alive, denied, handle, opened, inScope, existed, attempts, rd, pid,
                   nops, pre, last>>

CreateStep(p) ==
    \/ CreateOpen(p)
    \/ CreateGetPIDOpen(p)
    \/ CreateRead(p)
    \/ CreateIsRunning(p)
    \/ CreateRemove(p)

\* Process p dies: the system closes its descriptors, the file stays, and the
\* system keeps the process, with its PID, until it is reaped.
Crash(p) ==
    /\ pc[p] \notin {"off", "dead"}
    /\ pc' = [pc EXCEPT ![p] = "dead"]
    /\ handle' = [handle EXCEPT ![p] = NoInode]
    /\ opened' = [opened EXCEPT ![p] = {}]
    /\ rd' = [rd EXCEPT ![p] = NoInode]
    /\ inScope' = [inScope EXCEPT ![p] = FALSE]
    /\ UNCHANGED <<link, files, alive, denied, existed, attempts, pid, nops, pre, last>>

\* The dead process p is reaped (its parent waits for it): the PID is free.
Reap(p) ==
    /\ pc[p] = "dead" /\ alive[p]
    /\ alive' = [alive EXCEPT ![p] = FALSE]
    /\ UNCHANGED <<link, files, denied, handle, opened, inScope, pc, existed, attempts, rd,
                   pid, nops, pre, last>>

\* ------------------------------------------------------------------ specifications

\* Every process is in one of the given states; one that is not dead is in the
\* system, a dead one is until it is reaped.
InitProc(states) ==
    /\ pc \in [Procs -> states]
    /\ alive \in [Procs -> BOOLEAN]
    /\ \A p \in Procs : pc[p] # "dead" => alive[p]
    /\ handle = [p \in Procs |-> NoInode]
    /\ opened = [p \in Procs |-> {}]
    /\ inScope = [p \in Procs |-> FALSE]
    /\ existed = [p \in Procs |-> FALSE]
    /\ attempts = [p \in Procs |-> 0]
    /\ rd = [p \in Procs |-> NoInode]
    /\ pid = [p \in Procs |-> 0]
    /\ nops = [p \in Procs |-> 0]
    /\ pre = [p \in Procs |-> [link |-> NoInode, bytes |-> <<>>, handle |-> NoInode]]
    /\ last = [p \in Procs |-> Returned("none")]

\* The path is absent, or a file with content c is there.
InitPath(contents) ==
    \/ link = NoInode /\ files = <<>>
    \/ \E c \in contents : link = 1 /\ files = <<c>>

\* Concurrent daemons.  Each runs create(), writePID(), close(), remove() in that
\* order once, gives up when create() raises, and may die at any point.  The
\* path is absent at first, or left behind by a process that is dead.
Init ==
    /\ InitProc({"idle"})
    /\ denied = {}
    /\ InitPath({printed(DeadPID)})

Daemon(p) ==
    \/ last[p].op = "none" /\ CallCreate(p)
    \/ last[p].op = "create" /\ last[p].kind = "return" /\ WritePID(p, None)
    \/ last[p].op = "writePID" /\ Close(p)
    \/ last[p].op = "close" /\ Remove(p)

Next == \E p \in Procs : Daemon(p) \/ CreateStep(p) \/ Crash(p) \/ Reap(p)

Spec == Init /\ [][Next]_vars

\* The same daemons, none dying, with every process's steps weakly fair.
Proc(p) == Daemon(p) \/ CreateStep(p)

NextFair == \E p \in Procs : Proc(p)

SpecFair == Init /\ [][NextFair]_vars /\ \A p \in Procs : WF_vars(Proc(p))

\* One caller using the whole interface in any order.  The other processes leave
\* the path alone: they run, or are dead, reaped or not.
SeqContents ==
    { printed(DeadPID), printed(NumProcs), <<>>, <<49>>, <<LF>>, <<48, LF>>,
      <<97, LF>>, <<32, 49, 13, LF>> }

WriteArgs == {None} \cup {<<n>> : n \in {9, 10, DeadPID, 4096}}

InitSeq ==
    /\ InitProc({"idle", "off", "dead"})
    /\ \A p \in Procs : pc[p] = "idle" <=> p = 1
    /\ denied = {}
    /\ InitPath(SeqContents)

Call(p) ==
    \/ CallCreate(p)
    \/ GetPID(p)
    \/ \E arg \in WriteArgs : WritePID(p, arg)
    \/ FileNo(p)
    \/ Close(p)
    \/ Remove(p)
    \/ Enter(p)
    \/ Exit(p)

NextSeq == \E p \in Procs : Call(p) \/ CreateStep(p)

SpecSeq == InitSeq /\ [][NextSeq]_vars

\* getPID() and create() on a path holding any short byte string, or a digit
\* string too long for int().
Alphabet == {9, LF, 13, 32, 48, 49, 50, 97}

RECURSIVE BytesUpTo(_)
BytesUpTo(n) ==
    IF n = 0 THEN {<<>>}
    ELSE LET shorter == BytesUpTo(n - 1) IN
         shorter \cup {Append(s, b) : s \in {t \in shorter : Len(t) = n - 1}, b \in Alphabet}

\* s repeated n times.
RECURSIVE Repeat(_, _)
Repeat(s, n) ==
    IF n = 0 THEN <<>>
    ELSE LET half == Repeat(s, n \div 2) IN
         IF n % 2 = 1 THEN half \o half \o s ELSE half \o half

\* One digit more than int() converts, and the line terminator.
LongZeros == Repeat(<<48>>, IntMaxStrDigits + 1) \o <<LF>>

InitParse ==
    /\ InitProc({"idle", "off"})
    /\ \A p \in Procs : pc[p] = "idle" <=> p = 1
    /\ denied = {}
    /\ InitPath(BytesUpTo(MaxLen) \cup {LongZeros})

NextParse == \E p \in Procs : GetPID(p) \/ CallCreate(p) \/ CreateStep(p)

SpecParse == InitParse /\ [][NextParse]_vars

\* One caller asking about processes and claiming the path, on a system that
\* refuses the look-up of some processes.
ProbePIDs == Procs \cup {0, DeadPID}

InitLookup ==
    /\ InitProc({"idle", "off", "dead"})
    /\ \A p \in Procs : pc[p] = "idle" <=> p = 1
    /\ denied \in SUBSET (Procs \ {1})
    /\ InitPath({printed(n) : n \in ProbePIDs \ {0}})

NextLookup ==
    \E p \in Procs :
        \/ \E n \in ProbePIDs : IsProcessRunning(p, n)
        \/ CallCreate(p)
        \/ CreateStep(p)

SpecLookup == InitLookup /\ [][NextLookup]_vars

\* ------------------------------------------------------------------ claims

\* Process p is running: it is in the system and has not died.
Running(p) == alive[p] /\ pc[p] # "dead"

\* p holds a successful claim: its create() has returned and the handle is open.
Claimed(p) == Running(p) /\ handle[p] # NoInode

\* b is the content of a PID file that names a running process.
HoldsLivePID(b) ==
    /\ parsePID("getPID", b).kind = "return"
    /\ parsePID("getPID", b).pid \in {n \in Procs : Running(n)}

\* C1: at most one live process at a time holds a successful claim on the path.
C1_MutualExclusion == Cardinality({p \in Procs : Claimed(p)}) <= 1

\* C2: the file a create() call deletes never holds, at the moment of deletion,
\* the valid PID of a running process.
C2_NeverDeletesLiveLock ==
    [][\A p \in Procs :
         (pc[p] = "remove" /\ pc'[p] = "open" /\ link # NoInode)
             => ~HoldsLivePID(files[link])]_vars

\* -- what the claims say about file contents, stated without the code's parsing

RunningPIDs == {n \in Procs : Running(n)}

\* The stretches i..j of b that are all digits while every byte outside is whitespace.
DigitSpans(b) ==
    {sp \in (1..Len(b)) \X (1..Len(b)) :
        /\ sp[1] <= sp[2]
        /\ \A k \in 1..Len(b) :
              IF k \in sp[1]..sp[2] THEN b[k] \in Digits ELSE b[k] \in Whitespace}

\* Decimal value of the digits b[i..j], most significant first.
RECURSIVE DecimalValue(_, _, _)
DecimalValue(b, i, j) ==
    IF i > j THEN 0 ELSE (b[i] - 48) * 10 ^ (j - i) + DecimalValue(b, i + 1, j)

\* b ends with the line terminator and is, apart from surrounding whitespace, a
\* run of digits that are not all zero.
ValidPIDFile(b) ==
    /\ b # <<>> /\ b[Len(b)] = LF
    /\ DigitSpans(b) # {}
    /\ \E k \in 1..Len(b) : b[k] \in Digits \ {48}

\* The PID such a file names.
PIDIn(b) == LET sp == CHOOSE sp \in DigitSpans(b) : TRUE IN DecimalValue(b, sp[1], sp[2])

\* b is short enough for int() to convert whatever digits it holds before its
\* line terminator.
WithinIntLimit(b) == Len(b) <= IntMaxStrDigits + 1

\* b is exactly one or more digits, not all zero, and one line terminator.
StrictPIDFile(b) ==
    /\ Len(b) >= 2 /\ b[Len(b)] = LF
    /\ \A k \in 1..(Len(b) - 1) : b[k] \in Digits
    /\ \E k \in 1..(Len(b) - 1) : b[k] # 48

\* p's operation op has just finished (no one else acts in SpecSeq and SpecParse).
Done(p, op) == pc[p] = "idle" /\ last[p].op = op

\* The path and p's handle are as they were when p's last operation began.
Untouched(p) ==
    /\ link = pre[p].link
    /\ PathBytes = pre[p].bytes
    /\ handle[p] = pre[p].handle

\* The path holds a file created after all others, empty, and p's handle is on it.
ClaimedNewFile(p) ==
    /\ link = Len(files) /\ link # NoInode /\ link # pre[p].link
    /\ files[link] = <<>>
    /\ handle[p] = link
    /\ opened[p] = {link}

\* C3: on a path holding the valid PID n of a running process, create() raises
\* AlreadyRunning carrying n and leaves the file and the handle as they were.
C3_LiveLockRefused ==
    \A p \in Procs :
        (/\ Done(p, "create")
         /\ pre[p].link # NoInode
         /\ ValidPIDFile(pre[p].bytes)
         /\ PIDIn(pre[p].bytes) \in RunningPIDs)
        => /\ last[p] = AlreadyRunning("create", PIDIn(pre[p].bytes))
           /\ Untouched(p)

\* C4 as claimed: on an existing file with invalid content create() deletes the
\* file and returns true with the instance claimed.
C4_InvalidContentReclaimed ==
    \A p \in Procs :
        (/\ Done(p, "create") /\ pre[p].link # NoInode
         /\ WithinIntLimit(pre[p].bytes) /\ ~ValidPIDFile(pre[p].bytes))
        => /\ last[p] = ReturnedBool("create", TRUE)
           /\ ClaimedNewFile(p)

\* C4 amended: on an existing file with invalid content, short enough for int(),
\* create() raises InvalidPIDFileContent carrying the content and leaves the file
\* and the handle as they were.
C4_InvalidContentRaised ==
    \A p \in Procs :
        (/\ Done(p, "create") /\ pre[p].link # NoInode
         /\ WithinIntLimit(pre[p].bytes) /\ ~ValidPIDFile(pre[p].bytes))
        => /\ last[p] = InvalidPIDFileContent("create", pre[p].bytes)
           /\ Untouched(p)
           /\ attempts[p] = 1

\* C4 witness: create() met a file holding "0" and a line terminator.
C4_Witness ==
    \E p \in Procs :
        /\ Done(p, "create") /\ pre[p].link # NoInode /\ pre[p].bytes = <<48, LF>>
        /\ last[p].kind = "InvalidPIDFileContent"

\* C5: on a path holding the valid PID of a process that is not running, create()
\* returns true, the file is replaced by a new empty one and the instance is claimed.
C5_StaleLockReclaimed ==
    \A p \in Procs :
        (/\ Done(p, "create")
         /\ pre[p].link # NoInode
         /\ ValidPIDFile(pre[p].bytes)
         /\ PIDIn(pre[p].bytes) \notin RunningPIDs)
        => /\ last[p] = ReturnedBool("create", TRUE)
           /\ ClaimedNewFile(p)

\* C6: on an absent path create() succeeds at its first attempt, returns false,
\* leaves a new empty file at the path and the instance claimed.
C6_FreshCreate ==
    \A p \in Procs :
        (Done(p, "create") /\ pre[p].link = NoInode)
        => /\ last[p] = ReturnedBool("create", FALSE)
           /\ attempts[p] = 1
           /\ ClaimedNewFile(p)

\* C6 witness: create() returned on a path that was absent.
C6_Witness ==
    \E p \in Procs :
        Done(p, "create") /\ pre[p].link = NoInode /\ last[p].kind = "return"

\* C7 as claimed: after writePID(n) on a claimed instance getPID() returns n.
C7_RoundTripAlways ==
    \A p \in Procs :
        (Done(p, "writePID") /\ last[p].kind = "return" /\ last[p].pid > 0)
        => getPID("getPID", link) = ReturnedPID("getPID", last[p].pid)

\* C7 amended: after writePID(n) on a claimed instance whose handle is on the file
\* at the path and whose file was still empty, getPID() returns n.
C7_RoundTripFirstWrite ==
    \A p \in Procs :
        (/\ Done(p, "writePID") /\ last[p].kind = "return" /\ last[p].pid > 0
         /\ pre[p].handle = pre[p].link
         /\ pre[p].bytes = <<>>)
        => getPID("getPID", link) = ReturnedPID("getPID", last[p].pid)

\* C7 witness: a PID of several digits was written to the new file.
C7_Witness ==
    \E p \in Procs :
        /\ Done(p, "writePID") /\ last[p].kind = "return" /\ last[p].pid = DeadPID
        /\ pre[p].handle = pre[p].link /\ pre[p].bytes = <<>>

\* C8 as claimed: getPID() returns a value only for digits, not all zero, followed
\* by one line terminator and nothing else.
C8_StrictFormat ==
    \A p \in Procs :
        (Done(p, "getPID") /\ last[p].kind = "return") => StrictPIDFile(pre[p].bytes)

\* C8 amended: on a content short enough for int(), getPID() returns a value
\* exactly when the content ends with the line terminator and is, apart from
\* leading and trailing whitespace, digits that are not all zero, and it returns
\* their decimal value; every other such content raises InvalidPIDFileContent.
\* On more digits than int() converts, followed by the line terminator, getPID()
\* raises ValueError.
C8_TrimmedFormat ==
    \A p \in Procs :
        (Done(p, "getPID") /\ pre[p].link # NoInode)
        => IF WithinIntLimit(pre[p].bytes)
           THEN IF ValidPIDFile(pre[p].bytes)
                THEN last[p] = ReturnedPID("getPID", PIDIn(pre[p].bytes))
                ELSE last[p].kind = "InvalidPIDFileContent"
           ELSE (/\ pre[p].bytes[Len(pre[p].bytes)] = LF
                 /\ \A k \in 1..(Len(pre[p].bytes) - 1) : pre[p].bytes[k] \in Digits)
                => last[p] = Outcome("getPID", "ValueError", 0, FALSE, <<>>)

\* C8 witness: a PID with a leading tab and a carriage return was accepted.
C8_Witness ==
    \E p \in Procs :
        /\ Done(p, "getPID") /\ pre[p].bytes = <<9, 50, 13, LF>>
        /\ last[p].kind = "return"

\* The four ways a content is invalid.
NoTerminator(b) == b = <<>> \/ b[Len(b)] # LF
EmptyTrimmed(b) == \A k \in 1..Len(b) : b[k] \in Whitespace
NonDigitTrimmed(b) ==
    \/ \E k \in 1..Len(b) : b[k] \notin Digits \cup Whitespace
    \/ \E k \in 1..Len(b) :
          /\ b[k] \in Whitespace
          /\ \E i \in 1..(k - 1) : b[i] \notin Whitespace
          /\ \E j \in (k + 1)..Len(b) : b[j] \notin Whitespace
ParsesToZero(b) ==
    /\ \E k \in 1..Len(b) : b[k] = 48
    /\ \A k \in 1..Len(b) : b[k] \in Whitespace \cup {48}

\* C9: getPID() fails with PIDFileNotFound on an absent path and with
\* InvalidPIDFileContent carrying the whole content when the content lacks the
\* terminator, is empty or not all digits after trimming, or is zero; it changes
\* neither the path nor the handle.
C9_GetPIDFailures ==
    \A p \in Procs :
        Done(p, "getPID")
        => /\ pre[p].link = NoInode => last[p] = PIDFileNotFound("getPID")
           /\ (/\ pre[p].link # NoInode
               /\ \/ NoTerminator(pre[p].bytes)
                  \/ EmptyTrimmed(pre[p].bytes)
                  \/ NonDigitTrimmed(pre[p].bytes)
                  \/ ParsesToZero(pre[p].bytes))
              => last[p] = InvalidPIDFileContent("getPID", pre[p].bytes)
           /\ Untouched(p)

\* C10: on an unclaimed instance writePID() and fileno() fail with
\* PIDFileNotCreated and change neither the path nor the handle.
C10_NotCreated ==
    \A p \in Procs :
        ((Done(p, "writePID") \/ Done(p, "fileno")) /\ pre[p].handle = NoInode)
        => /\ last[p] = PIDFileNotCreated(last[p].op)
           /\ Untouched(p)

\* C10 witness: writePID() failed on an instance that had claimed the path,
\* written its PID and closed the file.
C10_Witness ==
    \E p \in Procs :
        /\ Done(p, "writePID") /\ last[p].kind = "PIDFileNotCreated"
        /\ PathBytes = printed(getpid(p))

\* C11: entering the scope changes nothing; after the exit, whatever happened
\* inside, the instance is unclaimed, its file is closed, no file is at the path
\* and getPID() fails with PIDFileNotFound.
C11_ScopedUsage ==
    \A p \in Procs :
        /\ Done(p, "enter") => Untouched(p)
        /\ Done(p, "exit")
           => /\ handle[p] = NoInode
              /\ opened[p] = {}
              /\ link = NoInode
              /\ getPID("getPID", link) = PIDFileNotFound("getPID")

\* C11 witness: the scope was left by an instance that had claimed the path
\* inside it and still held the new file.
C11_Witness ==
    \E p \in Procs :
        /\ Done(p, "exit") /\ pre[p].handle # NoInode /\ pre[p].link = pre[p].handle
        /\ pre[p].bytes = <<>> /\ nops[p] >= 3

\* C12: remove() deletes the file when there is one and returns true, returns
\* false and changes nothing when there is none, claimed or not, and never changes
\* the handle.
C12_Remove ==
    \A p \in Procs :
        Done(p, "remove")
        => /\ last[p] = ReturnedBool("remove", pre[p].link # NoInode)
           /\ link = NoInode
           /\ handle[p] = pre[p].handle
           /\ opened[p] = IF pre[p].handle = NoInode THEN {} ELSE {pre[p].handle}

\* C12 witness: an instance that never claimed the path removed a file from it.
C12_Witness ==
    \E p \in Procs :
        /\ Done(p, "remove") /\ last[p].flag
        /\ pre[p].handle = NoInode /\ Len(files) = 1

\* C13: close() leaves the instance unclaimed and the file at the path as it
\* was, also when the instance was unclaimed already; it raises nothing.
C13_Close ==
    \A p \in Procs :
        Done(p, "close")
        => /\ last[p] = Returned("close")
           /\ handle[p] = NoInode
           /\ opened[p] = {}
           /\ link = pre[p].link
           /\ PathBytes = pre[p].bytes

\* C13 witness: close() on an unclaimed instance whose file, with its PID in it,
\* is still at the path (a close() after a close()).
C13_Witness ==
    \E p \in Procs :
        /\ Done(p, "close") /\ pre[p].handle = NoInode
        /\ link # NoInode /\ PathBytes = printed(getpid(p))

\* C14: isProcessRunning(n) returns false exactly when the look-up reports that
\* there is no process n and returns true for every other outcome of the
\* look-up, also when the system refuses it; it never raises.
C14_IsProcessRunning ==
    \A p \in Procs :
        Done(p, "isProcessRunning")
        => last[p] = Outcome("isProcessRunning", "return", last[p].pid,
                             getpgid(last[p].pid) # "ProcessLookupError", <<>>)

\* p is inside create().
InCreate(p) == pc[p] \in {"open", "getPID", "read", "alive", "remove"}

\* C15: with weakly fair processes every create() invocation eventually ends, by
\* returning or by raising: the processes start finitely many, and from some
\* point on none of them is inside create().
C15_CreateTerminates == <>[](\A p \in Procs : ~InCreate(p))

\* C15 witness: a create() that went round its loop twice has returned.
C15_Witness ==
    \E p \in Procs :
        /\ pc[p] = "idle" /\ last[p].op = "create" /\ last[p].kind = "return"
        /\ attempts[p] = 3

\* C16: when the file is gone at the read that follows a failed exclusive
\* creation, create() deletes nothing, does not record a prior file, raises nothing
\* and goes back to the exclusive creation; no create() ends in PIDFileNotFound.
C16_VanishedFileRetried ==
    [][\A p \in Procs :
         /\ (pc[p] = "getPID" /\ link = NoInode /\ pc'[p] \notin {"getPID", "dead"})
            => /\ pc'[p] = "open"
               /\ link' = link /\ files' = files
               /\ existed'[p] = existed[p]
               /\ last'[p] = last[p]
               /\ handle'[p] = handle[p]
         /\ last'[p].op = "create" => last'[p].kind # "PIDFileNotFound"]_vars

\* C16 witness: a create() is back at the exclusive creation after a failed
\* attempt without having deleted a file.
C16_Witness ==
    \E p \in Procs : pc[p] = "open" /\ attempts[p] >= 1 /\ ~existed[p]

\* C17: a create() that returns, returns true exactly when one of its
\* exclusive-create attempts found the path existing (it needed a second attempt).
C17_ReturnsWhetherFileFound ==
    \A p \in Procs :
        (last[p].op = "create" /\ last[p].kind = "return")
        => (last[p].flag <=> attempts[p] >= 2)

\* C18: the handle is unset at construction, set by a create() that returns,
\* unset by close() and by the scope exit, and left as it was by every other
\* operation and by a create() that raises.
C18_HandleStateMachine ==
    \A p \in Procs :
        pc[p] = "idle"
        => /\ last[p].op = "none" => handle[p] = NoInode
           /\ last[p].op \in {"getPID", "writePID", "fileno", "remove", "enter"}
              => handle[p] = pre[p].handle
           /\ (last[p].op = "create" /\ last[p].kind # "return")
              => handle[p] = pre[p].handle
           /\ (last[p].op = "create" /\ last[p].kind = "return")
              => handle[p] # NoInode
           /\ last[p].op \in {"close", "exit"} => handle[p] = NoInode

\* C18 witness: a create() raised on an instance that was claimed and still is.
C18_Witness ==
    \E p \in Procs :
        /\ Done(p, "create") /\ last[p].kind = "AlreadyRunning"
        /\ handle[p] # NoInode /\ inScope[p]

\* C19: between operations the only file the instance holds open is the one its
\* handle refers to.
C19_NoDescriptorLeak ==
    \A p \in Procs :
        pc[p] = "idle"
        => /\ opened[p] = IF handle[p] = NoInode THEN {} ELSE {handle[p]}
           /\ rd[p] = NoInode

\* C19 witness: create() returned on an instance that was claimed before.
C19_Witness ==
    \E p \in Procs :
        /\ Done(p, "create") /\ last[p].kind = "return"
        /\ pre[p].handle # NoInode /\ handle[p] # pre[p].handle

\* C20: when create() has raised AlreadyRunning inside a scope because the path
\* holds the PID of a running process, and the scope is left, the file at the
\* path stays, with its content.
C20_FailedClaimKeepsLiveLock ==
    [][\A p \in Procs :
         (/\ inScope[p] /\ Done(p, "create") /\ last[p].kind = "AlreadyRunning"
          /\ last[p].pid \in RunningPIDs
          /\ last'[p].op = "exit")
         => link' = link /\ files' = files]_vars

====
